---- MODULE Spec2Model ----
(***************************************************************************)
(* Product Radar: the extraction-and-scoring pipeline of radar.py, the     *)
(* snapshot load/save and diff, the run of main, and the brand-list CLI    *)
(* of scripts/apply_brand_change.py.                                       *)
(*                                                                         *)
(* Text is modelled as a sequence of one-character strings, so that        *)
(* lower-casing, whitespace normalisation and substring tests are          *)
(* computed and not assumed.  A Python number is a record [k, v]: an int   *)
(* n is [k |-> "int", v |-> n], a float x is [k |-> "float", v |-> 10*x]   *)
(* (floats of the model have one decimal).  A JSON object / Python dict    *)
(* is a record whose fields are its keys; a bare JSON string s where an    *)
(* object is also possible (a legacy snapshot row) is [str |-> s].         *)
(***************************************************************************)
EXTENDS Integers, Sequences, FiniteSets, TLC

\* ---------------------------------------------------------------- text

UpperAlpha == <<"A","B","C","D","E","F","G","H","I","J","K","L","M","N","O","P","Q","R","S","T","U","V","W","X","Y","Z">>

LowerAlpha == <<"a","b","c","d","e","f","g","h","i","j","k","l","m","n","o","p","q","r","s","t","u","v","w","x","y","z">>

\* str.lower() on one character
LowerChar(c) ==
    IF \E i \in DOMAIN UpperAlpha : UpperAlpha[i] = c
    THEN LowerAlpha[CHOOSE i \in DOMAIN UpperAlpha : UpperAlpha[i] = c]
    ELSE c

\* str.lower()
Lower(s) == [i \in 1..Len(s) |-> LowerChar(s[i])]

\* `sub in s`
Contains(s, sub) ==
    \E i \in 0..(Len(s) - Len(sub)) : SubSeq(s, i + 1, i + Len(sub)) = sub

\* any(k in s for k in kws), kws a sequence of strings
ContainsAny(s, kws) == \E i \in DOMAIN kws : Contains(s, kws[i])

\* the characters \s matches, as far as the model's texts use them
IsSpace(c) == c \in {" ", "\n", "\t"}

RECURSIVE LStrip(_)
LStrip(s) == IF s # <<>> /\ IsSpace(Head(s)) THEN LStrip(Tail(s)) ELSE s

RECURSIVE RStrip(_)
RStrip(s) ==
    IF s # <<>> /\ IsSpace(s[Len(s)]) THEN RStrip(SubSeq(s, 1, Len(s) - 1)) ELSE s

\* str.strip()
Strip(s) == RStrip(LStrip(s))

\* re.sub(r"\s+", " ", s)
RECURSIVE CollapseSpace(_)
CollapseSpace(s) ==
    IF s = <<>> THEN <<>>
    ELSE IF IsSpace(Head(s)) THEN <<" ">> \o CollapseSpace(LStrip(Tail(s)))
    ELSE <<Head(s)>> \o CollapseSpace(Tail(s))

normalise_text(s) == Strip(CollapseSpace(s))

\* str.rstrip("/")
RECURSIVE RStripSlash(_)
RStripSlash(s) ==
    IF s # <<>> /\ s[Len(s)] = "/" THEN RStripSlash(SubSeq(s, 1, Len(s) - 1)) ELSE s

StartsWith(s, p) == Len(s) >= Len(p) /\ SubSeq(s, 1, Len(p)) = p

\* scheme://host of an absolute URL
Origin(u) ==
    LET sep == <<":","/","/">>
        a == CHOOSE i \in 1..(Len(u) - 2) :
                 /\ SubSeq(u, i, i + 2) = sep
                 /\ \A j \in 1..(i - 1) : SubSeq(u, j, j + 2) # sep
        slashes == {j \in (a + 3)..Len(u) : u[j] = "/"}
        e == IF slashes = {} THEN Len(u) + 1
             ELSE CHOOSE j \in slashes : \A k \in slashes : j <= k
    IN SubSeq(u, 1, e - 1)

\* urllib.parse.urljoin(base, href) for the hrefs of the model's pages:
\* empty, absolute (http:// or https://) and root-relative (/path)
urljoin(base, href) ==
    IF href = <<>> THEN base
    ELSE IF StartsWith(href, <<"h","t","t","p",":","/","/">>) \/ StartsWith(href, <<"h","t","t","p","s",":","/","/">>) THEN href
    ELSE Origin(base) \o href

\* ------------------------------------------------------------- numbers

PyFloat(tenths) == [k |-> "float", v |-> tenths]

PyInt(n) == [k |-> "int", v |-> n]

\* the value of a number, in tenths
Tenths(x) == IF x.k = "int" THEN 10 * x.v ELSE x.v

\* float(x)
ToFloat(x) == PyFloat(Tenths(x))

NumGt(a, b) == Tenths(a) > Tenths(b)

NumAdd(a, b) == PyFloat(Tenths(a) + Tenths(b))

\* x / 10.0, for the whole numbers the model divides
NumDiv10(x) == PyFloat(Tenths(x) \div 10)

NumMin(a, b) == IF Tenths(b) < Tenths(a) THEN b ELSE a

\* dict.get(key, default)
Get(d, key, default) == IF key \in DOMAIN d THEN d[key] ELSE default

\* seq[:n]
Take(seq, n) == SubSeq(seq, 1, IF Len(seq) < n THEN Len(seq) ELSE n)

\* ----------------------------------------------------------- selectors

GENERIC_KEYWORDS ==
    << <<"b","e","s","t","s","e","l","l","e","r">>, <<"b","e","s","t"," ","s","e","l","l","e","r">>, <<"b","e","s","t","-","s","e","l","l","i","n","g">>,
       <<"b","a","c","k"," ","i","n"," ","s","t","o","c","k">>, <<"r","e","s","t","o","c","k">>, <<"r","e","s","t","o","c","k","e","d">>,
       <<"m","o","s","t"," ","p","o","p","u","l","a","r">>, <<"p","o","p","u","l","a","r">>,
       <<"t","r","e","n","d","i","n","g">>,
       <<"n","e","w"," ","a","r","r","i","v","a","l","s">>, <<"n","e","w"," ","i","n">>, <<"j","u","s","t"," ","d","r","o","p","p","e","d">> >>

\* BRAND_HINTS.get(brand, {}).get("alts", [])
BRAND_HINTS(brand) ==
    CASE brand = "Corteiz" -> <<>>
      [] brand = "Represent" ->
            << <<"/","c","o","l","l","e","c","t","i","o","n","s","/","n","e","w","-","a","r","r","i","v","a","l","s">>, <<"/","c","o","l","l","e","c","t","i","o","n","s","/","b","e","s","t","s","e","l","l","e","r","s">> >>
      [] brand = "Supreme" -> << <<"/","s","h","o","p","/","n","e","w">>, <<"/","s","h","o","p","/","a","l","l">> >>
      [] brand = "Palace" -> << <<"/","c","o","l","l","e","c","t","i","o","n","s","/","n","e","w">>, <<"/","c","o","l","l","e","c","t","i","o","n","s","/","a","l","l">> >>
      [] brand = "Jaded London" ->
            << <<"/","c","o","l","l","e","c","t","i","o","n","s","/","n","e","w","-","i","n">>, <<"/","c","o","l","l","e","c","t","i","o","n","s","/","b","e","s","t","s","e","l","l","e","r","s">> >>
      [] OTHER -> <<>>

\* the hint families of the collection-level score bump
HINT_BEST == << <<"b","e","s","t">>, <<"p","o","p","u","l","a","r">>, <<"b","e","s","t","s","e","l","l","e","r">>, <<"t","o","p">> >>

HINT_NEW == << <<"n","e","w">>, <<"l","a","t","e","s","t">>, <<"d","r","o","p">>, <<"a","r","r","i","v","a","l","s">>, <<"j","u","s","t","-","d","r","o","p","p","e","d">> >>

RETRIES_PER_URL == 2

\* the per-page cap of find_candidate_products
PAGE_CAP == 40

\* the per-brand cap of brand_scan
BRAND_CAP == 30

\* ---------------------------------------------------------- extraction
\* A fetched page is what BeautifulSoup finds in its html:
\*   text  : soup.get_text(" ")
\*   ld    : the objects of its application/ld+json blocks, in order (a
\*           record per object; key "type" holds the set of its @type
\*           names, key "id" its @id)
\*   tiles : the elements the four fallback selectors select, in selector
\*           order, each with get_text() as text, get_text(" ") as sep, its
\*           own or its nearest ancestor link's href (empty if none) and the
\*           text of its two nearest ancestors as ctx

product_key(prod) == << Lower(Get(prod, "name", <<>>)), Lower(Get(prod, "url", <<>>)) >>

\* whether d.get(key) is truthy: present and not the number zero
Truthy(d, key) ==
    key \in DOMAIN d /\ (d[key].k \in {"int", "float"} => d[key].v # 0)

\* float(d.get(key) or 0) inside try/except: 0.0 when the value is absent
\* or not a number ([k |-> "text"])
RatingNumber(d, key) ==
    IF key \in DOMAIN d /\ d[key].k \in {"int", "float"} THEN ToFloat(d[key]) ELSE PyFloat(0)

\* one JSON-LD object -> the product appended for it, or none (<<>>)
LdProduct(obj, base_url) ==
    LET name   == Strip(Get(obj, "name", <<>>))
        u0     == IF Get(obj, "url", <<>>) # <<>> THEN obj.url ELSE Get(obj, "id", <<>>)
        url    == IF u0 = <<>> THEN <<>> ELSE urljoin(base_url, u0)
        offers == Get(obj, "offers", [none |-> TRUE])
        rating == Get(obj, "aggregateRating", [none |-> TRUE])
    IN IF "Product" \notin Get(obj, "type", {}) \/ name = <<>> THEN <<>>
       ELSE << [ name     |-> name,
                 url      |-> url,
                 price    |-> Get(offers, "price", "None"),
                 currency |-> Get(offers, "priceCurrency", "None"),
                 rating   |-> RatingNumber(rating, "ratingValue"),
                 reviews  |-> IF Truthy(rating, "reviewCount")
                              THEN RatingNumber(rating, "reviewCount")
                              ELSE RatingNumber(rating, "ratingCount") ] >>

RECURSIVE extract_products_from_json_ld(_, _)
extract_products_from_json_ld(ld, base_url) ==
    IF ld = <<>> THEN <<>>
    ELSE LdProduct(Head(ld), base_url) \o extract_products_from_json_ld(Tail(ld), base_url)

\* the collection-level score bump (base_score)
BaseScore(hint) ==
    LET hint_l == Lower(hint)
        best   == IF hint # <<>> /\ ContainsAny(hint_l, HINT_BEST) THEN 30 ELSE 0
        new    == IF hint # <<>> /\ ContainsAny(hint_l, HINT_NEW) THEN 20 ELSE 0
    IN PyFloat(10 + best + new)

\* if name contains a generic keyword: +3.0
KeywordBonus(text) == IF ContainsAny(text, GENERIC_KEYWORDS) THEN PyFloat(30) ELSE PyFloat(0)

\* products[key] = record, unless the key is there with a score at least as high
Upsert(products, record) ==
    LET key == << Lower(record.name), Lower(record.url) >>
        at  == {i \in DOMAIN products :
                    << Lower(products[i].name), Lower(products[i].url) >> = key}
    IN IF at = {} THEN Append(products, record)
       ELSE LET i == CHOOSE j \in at : TRUE
            IN IF NumGt(record.score, products[i].score)
               THEN [products EXCEPT ![i] = record]
               ELSE products

\* the record of pass 1 (JSON-LD) for one extracted product
LdRecord(prod, base_score) ==
    LET name == normalise_text(prod.name)
        score == NumAdd(NumAdd(NumAdd(base_score, KeywordBonus(Lower(name))),
                               prod.rating),
                        NumMin(PyFloat(50), NumDiv10(prod.reviews)))
    IN [ name |-> name, url |-> prod.url, price |-> prod.price,
         currency |-> prod.currency, score |-> score ]

RECURSIVE PassLd(_, _, _)
PassLd(prods, base_score, products) ==
    IF prods = <<>> THEN products
    ELSE PassLd(Tail(prods), base_score, Upsert(products, LdRecord(Head(prods), base_score)))

NAV_WORDS == << <<"h","o","m","e">>, <<"s","h","o","p">>, <<"c","a","r","t">>, <<"m","e","n","u">>, <<"s","e","a","r","c","h">> >>

\* whether pass 2 skips the element
TileSkipped(el) ==
    LET name == normalise_text(el.text)
    IN \/ Len(name) < 3 \/ Len(name) > 120
       \/ \E i \in DOMAIN NAV_WORDS : Lower(name) = NAV_WORDS[i]
       \/ el.href = <<>>

\* the record of pass 2 (tile selectors) for one element
TileRecord(el, base_url, base_score) ==
    LET name == normalise_text(el.text)
        local_text == Lower(el.sep \o <<" ">> \o el.ctx)
    IN [ name |-> name, url |-> urljoin(base_url, el.href), price |-> "None",
         currency |-> "None", score |-> NumAdd(base_score, KeywordBonus(local_text)) ]

RECURSIVE PassTiles(_, _, _, _)
PassTiles(tiles, base_url, base_score, products) ==
    IF tiles = <<>> THEN products
    ELSE PassTiles(Tail(tiles), base_url, base_score,
                   IF TileSkipped(Head(tiles)) THEN products
                   ELSE Upsert(products, TileRecord(Head(tiles), base_url, base_score)))

\* find_candidate_products(html, base_url, collection_hint); no hint is <<>>
find_candidate_products(page, base_url, hint) ==
    LET full_text == Lower(page.text)
        hits == SelectSeq(GENERIC_KEYWORDS, LAMBDA kw : Contains(full_text, kw))
        base_score == BaseScore(hint)
        a == PassLd(extract_products_from_json_ld(page.ld, base_url), base_score, <<>>)
        b == PassTiles(page.tiles, base_url, base_score, a)
    IN [products |-> Take(b, PAGE_CAP), hits |-> hits]

\* -------------------------------------------------------- state helpers

\* isinstance(item, str)
IsStr(item) == DOMAIN item = {"str"}

\* the upgrade with an off-by-one fault: the row it looked at to tell the
\* form is not converted
UpgradeRowsSkippingFirst(rows) ==
    IF rows # <<>> /\ IsStr(rows[1])
    THEN [i \in 1..(Len(rows) - 1) |->
            [ name |-> rows[i + 1].str, url |-> <<>>, score |-> PyFloat(0),
              status |-> "unknown" ]]
    ELSE [i \in 1..(Len(rows) - 1) |->
            [ name   |-> Get(rows[i + 1], "name", <<>>),
              url    |-> Get(rows[i + 1], "url", <<>>),
              score  |-> ToFloat(Get(rows[i + 1], "score", PyFloat(0))),
              status |-> Get(rows[i + 1], "status", "unknown") ]]

\* load_state's upgrade of one brand's persisted rows
UpgradeRows(rows) ==
    IF rows # <<>> /\ IsStr(rows[1])
    THEN [i \in 1..Len(rows) |->
            [ name |-> IF IsStr(rows[i]) THEN rows[i].str ELSE rows[i],
              url |-> <<>>, score |-> PyFloat(0), status |-> "unknown" ]]
    ELSE [i \in 1..Len(rows) |->
            [ name   |-> Get(rows[i], "name", <<>>),
              url    |-> Get(rows[i], "url", <<>>),
              score  |-> ToFloat(Get(rows[i], "score", PyFloat(0))),
              status |-> Get(rows[i], "status", "unknown") ]]

\* load_state(): file is [exists |-> FALSE] or [exists |-> TRUE, data |-> raw]
load_state(file) ==
    IF ~file.exists THEN [b \in {} |-> <<>>]
    ELSE [b \in DOMAIN file.data |-> UpgradeRows(file.data[b])]

\* save_state with a fault: every brand's rows written in the legacy form,
\* the names only
save_state_names_only(state) ==
    [ exists |-> TRUE,
      data |-> [b \in DOMAIN state |->
                  [i \in 1..Len(state[b]) |-> [str |-> state[b][i].name]]] ]

\* save_state(state): json.dumps keeps keys, order, strings and floats
save_state(state) == [exists |-> TRUE, data |-> state]

\* state.get(brand, [])
StateGet(state, brand) == IF brand \in DOMAIN state THEN state[brand] ELSE <<>>

\* state[brand] = rows
StatePut(state, brand, rows) ==
    [b \in DOMAIN state \cup {brand} |-> IF b = brand THEN rows ELSE state[b]]

\* ----------------------------------------------------------- reporting

\* diff_new with a fault: keys compared without lower-casing
diff_new_case_sensitive(prev_list, current_list) ==
    LET prev_keys == { IF IsStr(prev_list[i])
                       THEN << prev_list[i].str, <<>> >>
                       ELSE << prev_list[i].name, prev_list[i].url >> : i \in DOMAIN prev_list }
    IN SelectSeq(current_list, LAMBDA p : << p.name, p.url >> \notin prev_keys)

diff_new(prev_list, current_list) ==
    LET prev_keys == { IF IsStr(prev_list[i])
                       THEN << Lower(prev_list[i].str), <<>> >>
                       ELSE product_key(prev_list[i]) : i \in DOMAIN prev_list }
    IN SelectSeq(current_list, LAMBDA p : product_key(p) \notin prev_keys)

\* max(products, key=score): the first of the highest; none is <<>>
choose_best(products) ==
    IF products = <<>> THEN <<>>
    ELSE LET i == CHOOSE j \in DOMAIN products :
                     /\ \A k \in DOMAIN products :
                            ~NumGt(Get(products[k], "score", PyFloat(0)),
                                   Get(products[j], "score", PyFloat(0)))
                     /\ \A k \in 1..(j - 1) :
                            NumGt(Get(products[j], "score", PyFloat(0)),
                                  Get(products[k], "score", PyFloat(0)))
         IN << products[i] >>

\* sorted(rows, key=score, reverse=True): stable
RECURSIVE SortedByScore(_)
SortedByScore(rows) ==
    IF rows = <<>> THEN <<>>
    ELSE LET n    == Len(rows)
             rest == SortedByScore(SubSeq(rows, 1, n - 1))
             x    == rows[n]
             \* x goes after every element whose score is at least its own
             keep == {i \in DOMAIN rest :
                        ~NumGt(Get(x, "score", PyFloat(0)), Get(rest[i], "score", PyFloat(0)))}
             at   == IF keep = {} THEN 0 ELSE CHOOSE i \in keep : \A j \in keep : j <= i
         IN SubSeq(rest, 1, at) \o << x >> \o SubSeq(rest, at + 1, Len(rest))

\* f"{score:.1f}": a float with one decimal prints as its tenths
Fmt1(x) == Tenths(x)

\* the table lines of a section: | name | link | new | score | status |
TableRows(rows, newly_added) ==
    LET new_keys == { product_key(newly_added[i]) : i \in DOMAIN newly_added }
        sorted_rows == SortedByScore(rows)
    IN [i \in 1..Len(sorted_rows) |->
          [ name   |-> sorted_rows[i].name,
            link   |-> Get(sorted_rows[i], "url", <<>>),
            is_new |-> product_key(sorted_rows[i]) \in new_keys,
            score  |-> Fmt1(Get(sorted_rows[i], "score", PyFloat(0))),
            status |-> Get(sorted_rows[i], "status", "unknown") ]]

format_markdown(date_str, brand, rows, expl_notes, newly_added) ==
    IF rows = <<>>
    THEN [ header |-> << date_str, brand >>, kind |-> "could_not_verify",
           reason |-> expl_notes ]
    ELSE [ header |-> << date_str, brand >>, kind |-> "table",
           lines |-> TableRows(rows, newly_added), notes |-> expl_notes ]

\* the email section main builds for one brand
EmailSection(brand, rows, newly, best) ==
    [ brand |-> brand, lines |-> TableRows(rows, newly),
      best |-> IF best = <<>> THEN <<>>
               ELSE << [ name   |-> best[1].name,
                         url    |-> Get(best[1], "url", <<>>),
                         score  |-> Fmt1(Get(best[1], "score", PyFloat(0))),
                         status |-> Get(best[1], "status", "unknown") ] >> ]

\* brand_scan's de-dup by product_key, first seen kept
RECURSIVE Dedup(_, _)
Dedup(found, seen) ==
    IF found = <<>> THEN <<>>
    ELSE IF product_key(Head(found)) \in seen THEN Dedup(Tail(found), seen)
    ELSE << Head(found) >> \o Dedup(Tail(found), seen \cup {product_key(Head(found))})

\* ------------------------------------------------------ inputs of a run

\* brands.json of the run; an entry with no url is skipped by load_brands
BrandsFile ==
    << [name |-> "Represent", url |-> <<"h","t","t","p","s",":","/","/","r",".","c","o","/">>],
       [name |-> "Draft", url |-> <<>>],
       [name |-> "Corteiz", url |-> <<"h","t","t","p","s",":","/","/","c",".","t","z">>] >>

\* load_brands(): the (name, url) items in file order
load_brands == SelectSeq(BrandsFile, LAMBDA it : it.name # "" /\ it.url # <<>>)

\* today_iso_utc()
Day == "2026-11-02"

Tile(text, href, ctx) == [text |-> text, sep |-> text, href |-> href, ctx |-> ctx]

\* a listing with one plain product tile
PageCap ==
    [ text  |-> <<"S","h","o","p"," ","C","l","a","s","s","i","c"," ","C","a","p">>,
      ld    |-> <<>>,
      tiles |-> << Tile(<<"S","h","o","p">>, <<"/">>, <<>>),
                   Tile(<<"\n"," "," ","C","l","a","s","s","i","c"," "," "," ","C","a","p","\n">>, <<"/","p","r","o","d","u","c","t","s","/","c","a","p">>, <<>>) >> ]

\* a listing with a JSON-LD product, the same product as a tile, a sold-out
\* tile and the cap of PageCap spelled in another case
PageHoodie ==
    [ text  |-> <<"B","e","s","t","s","e","l","l","e","r"," ","H","o","o","d","i","e"," ","C","a","p"," ","-"," ","S","o","l","d"," ","O","u","t"," ","C","L","A","S","S","I","C"," ","C","A","P"," ","T","r","e","n","d","i","n","g">>,
      ld    |-> << [ type |-> {"Product", "Thing"},
                     name |-> <<" ","B","e","s","t","s","e","l","l","e","r"," ","H","o","o","d","i","e"," ">>,
                     url  |-> <<"/","p","r","o","d","u","c","t","s","/","h","o","o","d","i","e">>,
                     offers |-> [price |-> "59.00", priceCurrency |-> "GBP"],
                     aggregateRating |-> [ratingValue |-> PyFloat(45), reviewCount |-> PyInt(20)] ],
                   [ type |-> {"Organization"}, name |-> <<"R","e","p","r","e","s","e","n","t">> ] >>,
      tiles |-> << Tile(<<"B","e","s","t","s","e","l","l","e","r"," ","H","o","o","d","i","e">>, <<"/","p","r","o","d","u","c","t","s","/","h","o","o","d","i","e">>, <<>>),
                   Tile(<<"C","a","p"," ","-"," ","S","o","l","d"," ","O","u","t">>, <<"h","t","t","p","s",":","/","/","r",".","c","o","/","p","r","o","d","u","c","t","s","/","c","a","p","-","b","l","a","c","k">>, <<"T","r","e","n","d","i","n","g">>),
                   Tile(<<"C","L","A","S","S","I","C"," ","C","A","P">>, <<"/","P","R","O","D","U","C","T","S","/","C","A","P">>, <<>>) >> ]

\* a page with nothing to extract
PageEmpty == [ text |-> <<"M","e","n","u">>, ld |-> <<>>, tiles |-> << Tile(<<"M","e","n","u">>, <<"/","m","e","n","u">>, <<>>) >> ]

Pages == {PageCap, PageHoodie, PageEmpty}

\* data/state.json before the run: absent, in the legacy form, in the
\* current form (also holding a brand that is no longer configured)
NoFile == [exists |-> FALSE]

LegacyFile ==
    [ exists |-> TRUE,
      data |-> [b \in {"Represent"} |-> << [str |-> <<"C","l","a","s","s","i","c"," ","C","a","p">>], [str |-> <<"O","l","d"," ","T","e","e">>] >>] ]

CurrentFile ==
    [ exists |-> TRUE,
      data |-> [b \in {"Represent", "Corteiz", "Gone"} |->
                  IF b = "Represent"
                  THEN << [ name |-> <<"c","l","a","s","s","i","c"," ","c","a","p">>, url |-> <<"h","t","t","p","s",":","/","/","r",".","c","o","/","p","r","o","d","u","c","t","s","/","c","a","p">>,
                            score |-> PyFloat(10), status |-> "available" ],
                          [ name |-> <<"O","l","d"," ","T","e","e">>, url |-> <<"h","t","t","p","s",":","/","/","r",".","c","o","/","p","r","o","d","u","c","t","s","/","t","e","e">>,
                            score |-> PyInt(4) ] >>
                  ELSE IF b = "Corteiz" THEN <<>>
                  ELSE << [ name |-> <<"G","o","n","e"," ","J","a","c","k","e","t">>, url |-> <<>>, score |-> PyFloat(10),
                            status |-> "unknown" ] >>] ]

StateFiles == {NoFile, LegacyFile, CurrentFile}

\* --------------------------------------------------------------- state

VARIABLES
    \* a run of main
    pc,               \* where main is: start, loop, visit, finish, save, email, done, crashed
    state_file,       \* data/state.json
    state_file0,      \* data/state.json as it was when the run started
    saves,            \* how many times save_state has written the file
    state,            \* main's state dict
    bi,               \* index into load_brands of the brand being scanned
    vi,               \* page of the brand being visited: 0 the base, i the i-th alt
    attempt,          \* safe_visit's attempt
    last_err,         \* safe_visit's last_err
    found,            \* brand_scan's found
    notes,            \* brand_scan's notes
    rows,             \* the rows brand_scan returned last
    fetched,          \* per scanned brand: how many of its pages were fetched
    scanned,          \* per scanned brand: the rows brand_scan returned in this run
    report_sections,  \* main's report_sections
    email_sections,   \* main's email_sections
    report_file,      \* reports/<day>.md: <<>> until written, then << sections >>
    mail,             \* what send_email did: "none", "skipped", "sent"
    \* diff_new on its own
    d_pc,             \* "ready" before the call, "done" after it
    d_prev,           \* prev_list
    d_cur,            \* current_list
    d_new,            \* the list diff_new returned
    \* load_state on its own
    l_pc,             \* "raw", "once", "twice"
    l_file,           \* data/state.json
    l_once,           \* load_state() of the file
    l_twice,          \* load_state() of the file save_state(l_once) wrote
    \* find_candidate_products on its own
    s_pc,             \* "ready" before the call, "done" after it
    s_page,           \* the fetched page
    s_hint,           \* collection_hint
    s_out,            \* the list find_candidate_products returned
    \* apply_brand_change.py
    c_pc,             \* "cli" where invocations run
    brands_json,      \* brands.json (a missing file reads as the empty list)
    c_before,         \* brands.json before the last invocation
    c_args,           \* the last invocation's arguments, after strip()
    c_exit,           \* the last invocation's exit status
    c_written,        \* whether an invocation has written brands.json
    c_runs,           \* how many invocations have run
    \* main run again
    run_no,           \* 1 in the first run of main, 2 in the run after it
    scanned_before    \* per brand: the rows brand_scan returned in the run before

mainVars == << pc, state_file, state_file0, saves, state, bi, vi, attempt, last_err,
               found, notes, rows, fetched, scanned, report_sections, email_sections,
               report_file, mail >>

diffVars == << d_pc, d_prev, d_cur, d_new >>

loadVars == << l_pc, l_file, l_once, l_twice >>

scoreVars == << s_pc, s_page, s_hint, s_out >>

cliVars == << c_pc, brands_json, c_before, c_args, c_exit, c_written, c_runs >>

runsVars == << run_no, scanned_before >>

vars == << mainVars, diffVars, loadVars, scoreVars, cliVars, runsVars >>

\* every group is "idle" in the specifications of the others
notMain == << diffVars, loadVars, scoreVars, cliVars, runsVars >>

notDiff == << mainVars, loadVars, scoreVars, cliVars, runsVars >>

notLoad == << mainVars, diffVars, scoreVars, cliVars, runsVars >>

notScore == << mainVars, diffVars, loadVars, cliVars, runsVars >>

notCli == << mainVars, diffVars, loadVars, scoreVars, runsVars >>

EmptyMap == [b \in {} |-> <<>>]

\* the first run of main: no run before it
RunsIdle == run_no = 1 /\ scanned_before = EmptyMap

\* safe_visit's last_err: None, f"timeout on attempt {attempt}",
\* f"error: {type(e).__name__}"
NoErr == [err |-> "None"]

FetchErrors(n) == { [err |-> "timeout", attempt |-> n], [err |-> "error", type |-> "Error"] }

MainInit ==
    /\ pc = "start"
    /\ state_file \in StateFiles
    /\ state_file0 = state_file
    /\ saves = 0
    /\ state = EmptyMap
    /\ bi = 1
    /\ vi = 0
    /\ attempt = 1
    /\ last_err = NoErr
    /\ found = <<>>
    /\ notes = <<>>
    /\ rows = <<>>
    /\ fetched = EmptyMap
    /\ scanned = EmptyMap
    /\ report_sections = <<>>
    /\ email_sections = <<>>
    /\ report_file = <<>>
    /\ mail = "none"

\* ------------------------------------------------------------ brand_scan

Brand == load_brands[bi].name

BrandUrl == load_brands[bi].url

Alts == BRAND_HINTS(Brand)

\* the hint of the page being visited: none for the base
Hint == IF vi = 0 THEN <<>> ELSE Alts[vi]

\* the url of the page being visited
Target == IF vi = 0 THEN BrandUrl ELSE RStripSlash(BrandUrl) \o Alts[vi]

\* the note for a page's warning: f"{warn} at base" / f"{alt} {warn}"
WarnNote(warn) == [page |-> Hint, warn |-> warn]

\* f"Page signals: ..." / f"{alt} signals: ...", with sorted(set(hits))
SignalNote(hits) == [page |-> Hint, signals |-> {hits[i] : i \in DOMAIN hits}]

\* what follows a page's visit: the next alt, or the end of the scan
AfterVisit ==
    /\ attempt' = 1
    /\ last_err' = NoErr
    /\ IF vi < Len(Alts)
       THEN vi' = vi + 1 /\ pc' = "visit"
       ELSE vi' = vi /\ pc' = "finish"

StartEnabled == pc = "start"

\* main: load_brands(), today_iso_utc(), load_state()
Start ==
    /\ StartEnabled
    /\ UNCHANGED notMain
    /\ state' = load_state(state_file)
    /\ pc' = "loop"
    /\ UNCHANGED << state_file, state_file0, saves, bi, vi, attempt, last_err, found,
                    notes, rows, fetched, scanned, report_sections, email_sections,
                    report_file, mail >>

BeginScanEnabled ==
    /\ pc = "loop"
    /\ bi <= Len(load_brands)

\* brand_scan up to its first safe_visit: browser, context, page
BeginScan ==
    /\ BeginScanEnabled
    /\ UNCHANGED notMain
    /\ found' = <<>>
    /\ notes' = <<>>
    /\ vi' = 0
    /\ attempt' = 1
    /\ last_err' = NoErr
    /\ fetched' = StatePut(fetched, Brand, 0)
    /\ pc' = "visit"
    /\ UNCHANGED << state_file, state_file0, saves, state, bi, rows, scanned,
                    report_sections, email_sections, report_file, mail >>

\* safe_visit: an attempt that gets the page's html
VisitPage(page) ==
    LET got == find_candidate_products(page, Target, Hint)
    IN /\ notes' = IF got.hits # <<>> THEN Append(notes, SignalNote(got.hits)) ELSE notes
       /\ found' = found \o got.products

VisitOkEnabled == pc = "visit"

VisitOk ==
    /\ VisitOkEnabled
    /\ UNCHANGED notMain
    /\ \E page \in Pages : VisitPage(page)
    /\ fetched' = [fetched EXCEPT ![Brand] = @ + 1]
    /\ AfterVisit
    /\ UNCHANGED << state_file, state_file0, saves, state, bi, rows, scanned,
                    report_sections, email_sections, report_file, mail >>

VisitRetryEnabled ==
    /\ pc = "visit"
    /\ attempt < RETRIES_PER_URL

\* safe_visit: an attempt that times out or raises, with attempts left
VisitRetry ==
    /\ VisitRetryEnabled
    /\ UNCHANGED notMain
    /\ \E err \in FetchErrors(attempt) : last_err' = err
    /\ attempt' = attempt + 1
    /\ UNCHANGED << pc, state_file, state_file0, saves, state, bi, vi, found, notes, rows,
                    fetched, scanned, report_sections, email_sections, report_file, mail >>

VisitGiveUpEnabled ==
    /\ pc = "visit"
    /\ attempt = RETRIES_PER_URL

\* safe_visit with a fault: the last attempt's exception is not caught
VisitGiveUpRaising ==
    /\ VisitGiveUpEnabled
    /\ pc' = "crashed"
    /\ UNCHANGED << state_file, state_file0, saves, state, bi, vi, attempt, last_err,
                    found, notes, rows, fetched, scanned, report_sections,
                    email_sections, report_file, mail >>
    /\ UNCHANGED notMain

\* safe_visit with a fault: a page that could not be fetched ends the scan
VisitGiveUpAborting ==
    /\ VisitGiveUpEnabled
    /\ UNCHANGED notMain
    /\ \E err \in FetchErrors(attempt) : notes' = Append(notes, WarnNote(err))
    /\ attempt' = 1
    /\ last_err' = NoErr
    /\ vi' = vi
    /\ pc' = "finish"
    /\ UNCHANGED << state_file, state_file0, saves, state, bi, found, rows, fetched,
                    scanned, report_sections, email_sections, report_file, mail >>

\* safe_visit: the last attempt times out or raises; returns [], [], last_err
VisitGiveUp ==
    /\ VisitGiveUpEnabled
    /\ UNCHANGED notMain
    /\ \E err \in FetchErrors(attempt) : notes' = Append(notes, WarnNote(err))
    /\ AfterVisit
    /\ UNCHANGED << state_file, state_file0, saves, state, bi, found, rows, fetched,
                    scanned, report_sections, email_sections, report_file, mail >>

\* ------------------------------------------------------------------ main

\* brand_scan's return value: dedup[:30]
ScanRows(all_found) == Take(Dedup(all_found, {}), BRAND_CAP)

\* the update with a fault: a brand with no rows keeps its previous entry
UpdateStateUnlessEmpty(st, brand, new_rows) ==
    IF new_rows = <<>> THEN st ELSE StatePut(st, brand, new_rows)

\* main's "Update state": state[brand] = rows
UpdateState(st, brand, new_rows) == StatePut(st, brand, new_rows)

FinishBrandEnabled == pc = "finish"

\* the loop body with a fault: save_state(state) inside the loop
FinishBrandSaving ==
    /\ FinishBrandEnabled
    /\ UNCHANGED notMain
    /\ LET new_rows == ScanRows(found)
           newly    == diff_new(StateGet(state, Brand), new_rows)
           best     == choose_best(newly)
       IN /\ rows' = new_rows
          /\ report_sections' =
                Append(report_sections, format_markdown(Day, Brand, new_rows, notes, newly))
          /\ email_sections' =
                Append(email_sections, EmailSection(Brand, new_rows, newly, best))
          /\ state' = UpdateState(state, Brand, new_rows)
          /\ scanned' = StatePut(scanned, Brand, new_rows)
          /\ state_file' = save_state(UpdateState(state, Brand, new_rows))
    /\ saves' = saves + 1
    /\ bi' = bi + 1
    /\ pc' = "loop"
    /\ UNCHANGED << state_file0, vi, attempt, last_err, found, notes, fetched,
                    report_file, mail >>

\* the end of brand_scan (de-dup, return) and the rest of main's loop body
FinishBrand ==
    /\ FinishBrandEnabled
    /\ UNCHANGED notMain
    /\ LET new_rows == ScanRows(found)
           newly    == diff_new(StateGet(state, Brand), new_rows)
           best     == choose_best(newly)
       IN /\ rows' = new_rows
          /\ report_sections' =
                Append(report_sections, format_markdown(Day, Brand, new_rows, notes, newly))
          /\ email_sections' =
                Append(email_sections, EmailSection(Brand, new_rows, newly, best))
          /\ state' = UpdateState(state, Brand, new_rows)
          /\ scanned' = StatePut(scanned, Brand, new_rows)
    /\ bi' = bi + 1
    /\ pc' = "loop"
    /\ UNCHANGED << state_file, state_file0, saves, vi, attempt, last_err, found, notes,
                    fetched, report_file, mail >>

WriteReportEnabled ==
    /\ pc = "loop"
    /\ bi > Len(load_brands)

\* after the loop: out_path.write_text(report_md)
WriteReport ==
    /\ WriteReportEnabled
    /\ UNCHANGED notMain
    /\ report_file' = << report_sections >>
    /\ pc' = "save"
    /\ UNCHANGED << state_file, state_file0, saves, state, bi, vi, attempt, last_err,
                    found, notes, rows, fetched, scanned, report_sections,
                    email_sections, mail >>

SaveStateEnabled == pc = "save"

\* save_state(state)
SaveState ==
    /\ SaveStateEnabled
    /\ UNCHANGED notMain
    /\ state_file' = save_state(state)
    /\ saves' = saves + 1
    /\ pc' = "email"
    /\ UNCHANGED << state_file0, state, bi, vi, attempt, last_err, found, notes, rows,
                    fetched, scanned, report_sections, email_sections, report_file, mail >>

SendEmailEnabled == pc = "email"

\* send_email(subject, body): skipped when the credentials are not set
SendEmail ==
    /\ SendEmailEnabled
    /\ UNCHANGED notMain
    /\ mail' \in {"skipped", "sent"}
    /\ pc' = "done"
    /\ UNCHANGED << state_file, state_file0, saves, state, bi, vi, attempt, last_err,
                    found, notes, rows, fetched, scanned, report_sections,
                    email_sections, report_file >>

\* the run stops where it is: the process is killed, or an exception nothing
\* catches (brands.json missing, the browser does not launch, a write fails)
Crash ==
    /\ pc \notin {"done", "crashed"}
    /\ UNCHANGED notMain
    /\ pc' = "crashed"
    /\ UNCHANGED << state_file, state_file0, saves, state, bi, vi, attempt, last_err,
                    found, notes, rows, fetched, scanned, report_sections,
                    email_sections, report_file, mail >>

\* whether main can take a step
RunEnabled ==
    \/ StartEnabled
    \/ BeginScanEnabled
    \/ VisitOkEnabled
    \/ VisitRetryEnabled
    \/ VisitGiveUpEnabled
    \/ FinishBrandEnabled
    \/ WriteReportEnabled
    \/ SaveStateEnabled
    \/ SendEmailEnabled

\* the steps of main itself
Run ==
    \/ Start
    \/ BeginScan
    \/ VisitOk
    \/ VisitRetry
    \/ VisitGiveUp
    \/ FinishBrand
    \/ WriteReport
    \/ SaveState
    \/ SendEmail

\* main is started again after a run that completed: a new process, its
\* locals fresh, data/state.json as the run before left it, the next
\* report not yet written
NextRun ==
    /\ pc = "done"
    /\ run_no = 1
    /\ run_no' = 2
    /\ scanned_before' = scanned
    /\ pc' = "start"
    /\ state_file0' = state_file
    /\ saves' = 0
    /\ state' = EmptyMap
    /\ bi' = 1
    /\ vi' = 0
    /\ attempt' = 1
    /\ last_err' = NoErr
    /\ found' = <<>>
    /\ notes' = <<>>
    /\ rows' = <<>>
    /\ fetched' = EmptyMap
    /\ scanned' = EmptyMap
    /\ report_sections' = <<>>
    /\ email_sections' = <<>>
    /\ report_file' = <<>>
    /\ mail' = "none"
    /\ UNCHANGED << state_file, diffVars, loadVars, scoreVars, cliVars >>

\* ------------------------------------------------- diff_new on its own
\* diff_new applied to a previous list (legacy strings and records, also
\* mixed) and a current list drawn from small sets.

MaxPrev == 2

MaxCur == 2

Rec(name, url) == [name |-> name, url |-> url, score |-> PyFloat(10), status |-> "unknown"]

PrevItems ==
    { [str |-> <<"S","h","o","e">>], [str |-> <<"C","A","P">>],
      Rec(<<"S","h","o","e">>, <<"h","t","t","p",":","/","/","X","/","A">>), Rec(<<"s","h","o","e">>, <<>>) }

CurItems ==
    { Rec(<<"S","h","o","e">>, <<"h","t","t","p",":","/","/","x","/","a">>), Rec(<<"S","H","O","E">>, <<>>),
      Rec(<<"C","a","p">>, <<"h","t","t","p",":","/","/","x","/","c">>), Rec(<<"T","e","e">>, <<"h","t","t","p",":","/","/","x","/","t">>) }

SeqsUpTo(S, n) == UNION { [1..m -> S] : m \in 0..n }


DiffIdle == d_pc = "idle" /\ d_prev = <<>> /\ d_cur = <<>> /\ d_new = <<>>

DiffInit ==
    /\ d_pc = "ready"
    /\ d_prev \in SeqsUpTo(PrevItems, MaxPrev)
    /\ d_cur \in SeqsUpTo(CurItems, MaxCur)
    /\ d_new = <<>>

DiffCall ==
    /\ d_pc = "ready"
    /\ UNCHANGED notDiff
    /\ d_new' = diff_new(d_prev, d_cur)
    /\ d_pc' = "done"
    /\ UNCHANGED << d_prev, d_cur >>

\* ----------------------------------------------- load_state on its own
\* load_state applied to a persisted file, and applied again to what the
\* first load returned, written back by save_state.

MaxRows == 2

FullRow(score) ==
    [ name |-> <<"S","h","o","e">>, url |-> <<"h","t","t","p",":","/","/","x","/","a">>, score |-> score, status |-> "sold out" ]

\* persisted records: every non-empty choice of the four keys, the score
\* written as an int or as a float
RawRecords ==
    { [k \in keys |-> FullRow(score)[k]] :
        keys \in (SUBSET {"name", "url", "score", "status"}) \ {{}},
        score \in {PyInt(3), PyFloat(35)} }

RawStrings == { [str |-> <<"S","h","o","e">>], [str |-> <<" ","C","a","p">>] }

\* a file holds one brand, in the legacy or in the current form
RawFiles ==
    {NoFile} \cup
    { [exists |-> TRUE, data |-> [b \in {"Represent"} |-> rws]] :
        rws \in SeqsUpTo(RawStrings, MaxRows) \cup SeqsUpTo(RawRecords, MaxRows) }


LoadIdle == l_pc = "idle" /\ l_file = NoFile /\ l_once = EmptyMap /\ l_twice = EmptyMap

LoadInit ==
    /\ l_pc = "raw"
    /\ l_file \in RawFiles
    /\ l_once = EmptyMap
    /\ l_twice = EmptyMap

LoadOnce ==
    /\ l_pc = "raw"
    /\ UNCHANGED notLoad
    /\ l_once' = load_state(l_file)
    /\ l_pc' = "once"
    /\ UNCHANGED << l_file, l_twice >>

LoadAgain ==
    /\ l_pc = "once"
    /\ UNCHANGED notLoad
    /\ l_twice' = load_state(save_state(l_once))
    /\ l_pc' = "twice"
    /\ UNCHANGED << l_file, l_once >>

\* -------------------------------------- find_candidate_products on its own
\* One product on one page, found by pass 1 (JSON-LD), by pass 2 (a tile)
\* or by both, extracted under a collection hint.

ScoreBase == <<"h","t","t","p","s",":","/","/","r",".","c","o","/">>

\* product texts as they stand in the html
ScoreTexts ==
    { <<"B","e","s","t","s","e","l","l","e","r"," ","H","o","o","d","i","e">>, <<"B","e","s","t","\n"," "," "," ","S","e","l","l","e","r"," ","H","o","o","d","i","e">>, <<"C","l","a","s","s","i","c"," ","C","a","p">>,
      <<" "," ","N","E","W"," ","I","N"," ","T","e","e"," ">>, <<"O","n","l","y"," ","2"," ","L","e","f","t"," ","-"," ","C","a","p">> }

LdObject(text, rated) ==
    IF rated
    THEN [ type |-> {"Product"}, name |-> text, url |-> <<"/","p","r","o","d","u","c","t","s","/","x">>,
           aggregateRating |-> [ratingValue |-> PyFloat(45), reviewCount |-> PyInt(120)] ]
    ELSE [ type |-> {"Product"}, name |-> text, url |-> <<"/","p","r","o","d","u","c","t","s","/","x">> ]

ScorePages ==
    { [text |-> t, ld |-> << LdObject(t, rated) >>, tiles |-> <<>>] :
        t \in ScoreTexts, rated \in BOOLEAN }
    \cup
    { [text |-> t \o <<" ">> \o ctx, ld |-> <<>>, tiles |-> << Tile(t, <<"/","p","r","o","d","u","c","t","s","/","x">>, ctx) >>] :
        t \in ScoreTexts, ctx \in {<<>>, <<"T","r","e","n","d","i","n","g"," ","n","o","w">>} }
    \cup
    { [text |-> t, ld |-> << LdObject(t, FALSE) >>, tiles |-> << Tile(t, <<"/","p","r","o","d","u","c","t","s","/","x">>, <<>>) >>] :
        t \in ScoreTexts }

\* collection hints: none, a word of one family, alt paths of BRAND_HINTS,
\* paths that match both families or neither
ScoreHints ==
    { <<>>, <<"b","e","s","t">>, <<"/","c","o","l","l","e","c","t","i","o","n","s","/","n","e","w","-","a","r","r","i","v","a","l","s">>, <<"/","c","o","l","l","e","c","t","i","o","n","s","/","b","e","s","t","s","e","l","l","e","r","s">>,
      <<"/","s","h","o","p","/","a","l","l">>, <<"/","s","h","o","p","/","n","e","w">>, <<"/","T","O","P","-","n","e","w">>, <<"/","c","o","l","l","e","c","t","i","o","n","s","/","l","a","t","e","s","t","-","p","o","p","u","l","a","r">> }


ScoreIdle == s_pc = "idle" /\ s_page = PageEmpty /\ s_hint = <<>> /\ s_out = <<>>

ScoreInit ==
    /\ s_pc = "ready"
    /\ s_page \in ScorePages
    /\ s_hint \in ScoreHints
    /\ s_out = <<>>

ScoreCall ==
    /\ s_pc = "ready"
    /\ UNCHANGED notScore
    /\ s_out' = find_candidate_products(s_page, ScoreBase, s_hint).products
    /\ s_pc' = "done"
    /\ UNCHANGED << s_page, s_hint >>

\* ------------------------------------------ scripts/apply_brand_change.py

\* the characters of the model's brand names, in code-point order
CodePoints == <<" ","-",".","/","0","1","2","3","4","5","6","7","8","9",":","A","B","C","D","E","F","G","H","I","J","K","L","M","N","O","P","Q","R","S","T","U","V","W","X","Y","Z","a","b","c","d","e","f","g","h","i","j","k","l","m","n","o","p","q","r","s","t","u","v","w","x","y","z">>

Ord(c) == CHOOSE i \in DOMAIN CodePoints : CodePoints[i] = c

\* a <= b for Python strings
RECURSIVE StrLe(_, _)
StrLe(a, b) ==
    IF a = <<>> THEN TRUE
    ELSE IF b = <<>> THEN FALSE
    ELSE IF Head(a) = Head(b) THEN StrLe(Tail(a), Tail(b))
    ELSE Ord(Head(a)) < Ord(Head(b))

NameKey(it) == Lower(Get(it, "name", <<>>))

\* idx_of with a fault: names compared without lower-casing
idx_of_case_sensitive(brands, nm) ==
    LET at == {i \in DOMAIN brands : Get(brands[i], "name", <<>>) = nm}
    IN IF at = {} THEN 0 ELSE CHOOSE i \in at : \A j \in at : i <= j

\* idx_of(nm): the first index whose name matches, 0 for Python's -1
idx_of(brands, nm) ==
    LET at == {i \in DOMAIN brands : NameKey(brands[i]) = Lower(nm)}
    IN IF at = {} THEN 0 ELSE CHOOSE i \in at : \A j \in at : i <= j

\* sorted(brands, key=lower-cased name): stable
RECURSIVE SortedByName(_)
SortedByName(brands) ==
    IF brands = <<>> THEN <<>>
    ELSE LET n    == Len(brands)
             rest == SortedByName(SubSeq(brands, 1, n - 1))
             x    == brands[n]
             keep == {i \in DOMAIN rest : StrLe(NameKey(rest[i]), NameKey(x))}
             at   == IF keep = {} THEN 0 ELSE CHOOSE i \in keep : \A j \in keep : j <= i
         IN SubSeq(rest, 1, at) \o << x >> \o SubSeq(rest, at + 1, Len(rest))

\* brands.pop(i)
Pop(brands, i) == SubSeq(brands, 1, i - 1) \o SubSeq(brands, i + 1, Len(brands))

\* what main saves, after the add or remove and the sort
CliResult(brands, action, name, url) ==
    LET i == idx_of(brands, name)
    IN SortedByName(
         IF action = "add"
         THEN IF i > 0
              THEN IF url # <<>> /\ Get(brands[i], "url", <<>>) # url
                   THEN [brands EXCEPT ![i] = [brands[i] EXCEPT !.url = url]]
                   ELSE brands
              ELSE Append(brands, [name |-> name, url |-> url])
         ELSE IF i > 0 THEN Pop(brands, i) ELSE brands)

\* add of a name that is not listed, with no url: sys.exit(1) before the save
CliExits(brands, action, name, url) ==
    action = "add" /\ idx_of(brands, name) = 0 /\ url = <<>>

MaxBrands == 2

MaxInvocations == 2

Entry(name, url) == [name |-> name, url |-> url]

\* entries a brands.json written by hand may hold
FileEntries ==
    { Entry(<<"N","i","k","e">>, <<"h","t","t","p","s",":","/","/","n",".","c","o">>), Entry(<<"a","d","i","d","a","s">>, <<"h","t","t","p","s",":","/","/","a",".","c","o">>),
      Entry(<<"Z","a","r","a">>, <<"h","t","t","p","s",":","/","/","z",".","c","o">>) }

NoTwoAlike(brands) ==
    \A i, j \in DOMAIN brands : NameKey(brands[i]) = NameKey(brands[j]) => i = j

\* --name and --url as typed
CliNames == { <<" ","n","i","k","e"," ">>, <<"P","u","m","a">>, <<"Z","A","R","A">> }

CliUrls == { <<>>, <<" ","h","t","t","p","s",":","/","/","n","e","w",".","c","o"," ">> }


NoArgs == [action |-> "none", name |-> <<>>, url |-> <<>>]

CliIdle ==
    /\ c_pc = "idle" /\ brands_json = <<>> /\ c_before = <<>> /\ c_args = NoArgs
    /\ c_exit = 0 /\ c_written = FALSE /\ c_runs = 0

CliInit ==
    /\ c_pc = "cli"
    /\ brands_json \in {b \in SeqsUpTo(FileEntries, MaxBrands) : NoTwoAlike(b)}
    /\ c_before = brands_json
    /\ c_args = NoArgs
    /\ c_exit = 0
    /\ c_written = FALSE
    /\ c_runs = 0

\* one invocation of apply_brand_change.py
Invoke(action, raw_name, raw_url) ==
    LET name == Strip(raw_name)
        url  == Strip(raw_url)
    IN /\ c_pc = "cli"
       /\ UNCHANGED notCli
       /\ c_runs < MaxInvocations
       /\ c_runs' = c_runs + 1
       /\ c_before' = brands_json
       /\ c_args' = [action |-> action, name |-> name, url |-> url]
       /\ IF CliExits(brands_json, action, name, url)
          THEN /\ c_exit' = 1
               /\ UNCHANGED << brands_json, c_written >>
          ELSE /\ c_exit' = 0
               /\ brands_json' = CliResult(brands_json, action, name, url)
               /\ c_written' = TRUE
       /\ UNCHANGED c_pc

CliAdd == \E n \in CliNames, u \in CliUrls : Invoke("add", n, u)

CliRemove == \E n \in CliNames : Invoke("remove", n, <<>>)

\* ------------------------------------------------------- specifications

MainIdle ==
    /\ pc = "idle" /\ state_file = NoFile /\ state_file0 = NoFile /\ saves = 0
    /\ state = EmptyMap /\ bi = 1 /\ vi = 0 /\ attempt = 1 /\ last_err = NoErr
    /\ found = <<>> /\ notes = <<>> /\ rows = <<>> /\ fetched = EmptyMap
    /\ scanned = EmptyMap /\ report_sections = <<>> /\ email_sections = <<>>
    /\ report_file = <<>> /\ mail = "none"

Init == MainInit /\ DiffIdle /\ LoadIdle /\ ScoreIdle /\ CliIdle /\ RunsIdle

Next == Run \/ Crash

\* a run of main, which may be stopped at any point
Spec == Init /\ [][Next]_vars

\* a run of main that nothing stops from outside
SpecRun == Init /\ [][Run]_vars

\* the steps of a run in which every page is fetched at the first attempt
RunFetching ==
    \/ Start
    \/ BeginScan
    \/ VisitOk
    \/ FinishBrand
    \/ WriteReport
    \/ SaveState
    \/ SendEmail

NextTwoRuns == RunFetching \/ NextRun

\* two consecutive runs of main, every page fetched, the second started
\* after the first completed
SpecTwoRuns == Init /\ [][NextTwoRuns]_vars

InitDiff == MainIdle /\ DiffInit /\ LoadIdle /\ ScoreIdle /\ CliIdle /\ RunsIdle

NextDiff == DiffCall

SpecDiff == InitDiff /\ [][NextDiff]_vars

InitLoad == MainIdle /\ DiffIdle /\ LoadInit /\ ScoreIdle /\ CliIdle /\ RunsIdle

NextLoad == LoadOnce \/ LoadAgain

SpecLoad == InitLoad /\ [][NextLoad]_vars

InitScore == MainIdle /\ DiffIdle /\ LoadIdle /\ ScoreInit /\ CliIdle /\ RunsIdle

NextScore == ScoreCall

SpecScore == InitScore /\ [][NextScore]_vars

InitCli == MainIdle /\ DiffIdle /\ LoadIdle /\ ScoreIdle /\ CliInit /\ RunsIdle

NextCli == CliAdd \/ CliRemove

SpecCli == InitCli /\ [][NextCli]_vars

\* ------------------------------------------------------------- properties

ConfiguredBrands == { load_brands[i].name : i \in DOMAIN load_brands }

\* C1: data/state.json is written at most once in a run, exactly once in a
\* run that completes, and only after every configured brand was scanned
\* and the report was written; until then it is the file the run found.
C1_SnapshotWrittenOnceAtEnd ==
    /\ saves <= 1
    /\ saves = 0 => state_file = state_file0
    /\ saves = 1 => DOMAIN scanned = ConfiguredBrands /\ report_file # <<>>
    /\ pc = "done" => saves = 1

\* a run stopped after a brand was scanned with products, the snapshot it
\* found still on disk
C1_StoppedMidRun ==
    /\ pc = "crashed"
    /\ state_file0.exists
    /\ \E b \in DOMAIN scanned : scanned[b] # <<>>
    /\ bi <= Len(load_brands)
    /\ state_file = state_file0

\* brand_scan has returned for the brand before index bi, and found and rows
\* are still those of that scan
ScanReturned == pc \in {"loop", "save", "email", "done"} /\ bi > 1

\* C2: every entry of brand_scan's merged result carries the highest score
\* any page visit of the scan produced for its identity key.
C2_MergedScoreIsHighest ==
    ScanReturned =>
        \A i \in DOMAIN rows : \A j \in DOMAIN found :
            product_key(found[j]) = product_key(rows[i])
                => ~NumGt(found[j].score, rows[i].score)

\* C3: a current candidate whose name equals, ignoring case, a legacy bare
\* string of the previous list is not in diff_new's result, whatever its url.
C3_LegacyNameExcluded ==
    d_pc = "done" =>
        \A j \in DOMAIN d_prev : IsStr(d_prev[j]) =>
            \A i \in DOMAIN d_new : Lower(d_new[i].name) # Lower(d_prev[j].str)

SectionsOf(b) == { i \in DOMAIN report_sections : report_sections[i].header[2] = b }

\* a completed run: one section per configured brand in order, the report
\* file holding them, the snapshot written once with every configured brand
RunCompleted ==
    /\ Len(report_sections) = Len(load_brands)
    /\ \A i \in DOMAIN report_sections : report_sections[i].header[2] = load_brands[i].name
    /\ report_file = << report_sections >>
    /\ saves = 1
    /\ state_file.exists
    /\ ConfiguredBrands \subseteq DOMAIN state_file.data

\* every scanned brand none of whose pages could be fetched has the "could
\* not verify" section and no other
FailedBrandsHaveFallback ==
    \A b \in DOMAIN scanned : fetched[b] = 0 =>
        /\ SectionsOf(b) # {}
        /\ \A i \in SectionsOf(b) : report_sections[i].kind = "could_not_verify"

\* how far the run is: the brand, the place in the loop body, the page, the
\* attempt, in that order
PcRank ==
    CASE pc = "start" -> 0 [] pc = "loop" -> 1 [] pc = "visit" -> 2
      [] pc = "finish" -> 3 [] pc = "save" -> 4 [] pc = "email" -> 5
      [] pc = "done" -> 6 [] OTHER -> 7

Progress == ((bi * 8 + PcRank) * 4 + vi) * (RETRIES_PER_URL + 1) + attempt

\* C4: a brand none of whose pages could be fetched gets the "could not
\* verify" section, and the run goes on to its end: no outcome of a fetch
\* leaves main without a next step before it is done, every step takes it
\* further, and when it is done every configured brand has its section and
\* the report file and the snapshot are written.
C4_FailedBrandDoesNotStopRun ==
    /\ [](FailedBrandsHaveFallback)
    /\ [](pc = "done" => RunCompleted)
    /\ [](pc = "done" \/ RunEnabled)
    /\ [][Progress' > Progress]_vars

\* a completed run in which one brand had every fetch fail and another
\* brand got a table
C4_OneBrandFailedOtherReported ==
    /\ pc = "done"
    /\ \E b \in DOMAIN scanned : fetched[b] = 0
    /\ \E i \in DOMAIN report_sections : report_sections[i].kind = "table"

\* C5: after the snapshot is written, every configured brand's entry is the
\* list brand_scan returned for it in this run, whatever the file held.
C5_SnapshotIsThisRunsRows ==
    saves = 1 =>
        \A b \in ConfiguredBrands :
            /\ b \in DOMAIN scanned
            /\ b \in DOMAIN state_file.data
            /\ state_file.data[b] = scanned[b]

\* a brand that had rows in the file the run found and none in this run
C5_PreviousRowsGone ==
    /\ saves = 1
    /\ state_file0.exists
    /\ \E b \in ConfiguredBrands :
          /\ b \in DOMAIN state_file0.data
          /\ state_file0.data[b] # <<>>
          /\ scanned[b] = <<>>
          /\ state_file.data[b] = <<>>

\* the identity key of an item of the previous list
PrevKey(item) ==
    IF IsStr(item) THEN << Lower(item.str), <<>> >>
    ELSE << Lower(item.name), Lower(item.url) >>

\* the indices of current_list whose key is no previous item's key
Kept ==
    { i \in DOMAIN d_cur :
        \A j \in DOMAIN d_prev :
            PrevKey(d_prev[j]) # << Lower(d_cur[i].name), Lower(d_cur[i].url) >> }

\* the n-th smallest element of a set of indices
NthOf(S, n) == CHOOSE i \in S : Cardinality({j \in S : j <= i}) = n

\* C6: diff_new returns exactly the items of current_list whose identity key
\* is no previous item's key, in current_list's order; all of current_list
\* when the previous list is empty.
C6_DiffNewIsTheUnseenInOrder ==
    d_pc = "done" =>
        /\ Len(d_new) = Cardinality(Kept)
        /\ \A n \in DOMAIN d_new : d_new[n] = d_cur[NthOf(Kept, n)]
        /\ d_prev = <<>> => d_new = d_cur

\* a current item dropped for a previous record that is spelled in another
\* case, while another current item is kept
C6_DroppedAcrossCase ==
    /\ d_pc = "done"
    /\ d_new # <<>>
    /\ \E i \in DOMAIN d_cur, j \in DOMAIN d_prev :
          /\ ~IsStr(d_prev[j])
          /\ i \notin Kept
          /\ d_cur[i].url # d_prev[j].url
          /\ product_key(d_cur[i]) = product_key(d_prev[j])

\* C7: loading what a load returned gives the same records again.
C7_UpgradeIdempotent == l_pc = "twice" => l_twice = l_once

\* a file whose rows the first load changed: legacy strings, missing keys or
\* an int score
C7_UpgradeChangedRows ==
    /\ l_pc = "twice"
    /\ l_file.exists
    /\ \E b \in DOMAIN l_once : Len(l_once[b]) = MaxRows /\ l_once[b] # l_file.data[b]

\* the base score the scoring rule states for a hint, in tenths
StatedBase(hint) ==
    10 + (IF ContainsAny(Lower(hint), HINT_BEST) THEN 30 ELSE 0)
       + (IF ContainsAny(Lower(hint), HINT_NEW) THEN 20 ELSE 0)

\* no JSON-LD object of the page has rating or review data
Unrated(page) == \A k \in DOMAIN page.ld : "aggregateRating" \notin DOMAIN page.ld[k]

\* C8: a candidate with no rating or review data whose name contains a
\* generic keyword scores the base score of the hint plus 3.0.
C8_KeywordNameScoresBasePlus3 ==
    s_pc = "done" /\ Unrated(s_page) =>
        \A i \in DOMAIN s_out :
            ContainsAny(Lower(s_out[i].name), GENERIC_KEYWORDS)
                => Tenths(s_out[i].score) = StatedBase(s_hint) + 30

\* the status the classification rule gives a product name
StatusOf(name) ==
    LET l == Lower(name)
    IN IF Contains(l, <<"s","o","l","d"," ","o","u","t">>) THEN "sold out"
       ELSE IF Contains(l, <<"o","n","l","y">>) /\ Contains(l, <<"l","e","f","t">>) THEN "low stock"
       ELSE "available"

\* C9: every product line of the report and every record of the written
\* snapshot of a scanned brand carries the status of its name.
C9_StatusFollowsName ==
    /\ \A i \in DOMAIN report_sections :
          report_sections[i].kind = "table" =>
              \A k \in DOMAIN report_sections[i].lines :
                  report_sections[i].lines[k].status
                      = StatusOf(report_sections[i].lines[k].name)
    /\ saves = 1 =>
          \A b \in ConfiguredBrands : \A k \in DOMAIN state_file.data[b] :
              Get(state_file.data[b][k], "status", "unknown")
                  = StatusOf(state_file.data[b][k].name)

IsSortedByName(brands) ==
    \A i \in 1..(Len(brands) - 1) : StrLe(NameKey(brands[i]), NameKey(brands[i + 1]))

Entries(brands) == { brands[i] : i \in DOMAIN brands }

\* the entries of the list before the last invocation that match its name
Matching == { e \in Entries(c_before) : NameKey(e) = Lower(c_args.name) }

\* what the last invocation did to the set of entries: add with a url
\* upserts, add without a url adds nothing, remove of an absent name
\* changes nothing
LastInvocationEffect ==
    /\ c_args.action = "add" /\ c_args.url # <<>> /\ Matching # {} =>
          Entries(brands_json) =
              (Entries(c_before) \ Matching)
                  \cup { [e EXCEPT !.url = c_args.url] : e \in Matching }
    /\ c_args.action = "add" /\ c_args.url # <<>> /\ Matching = {} =>
          Entries(brands_json) =
              Entries(c_before) \cup { [name |-> c_args.name, url |-> c_args.url] }
    /\ c_args.action = "add" /\ c_args.url = <<>> =>
          Entries(brands_json) = Entries(c_before)
    /\ c_args.action = "remove" /\ Matching = {} =>
          Entries(brands_json) = Entries(c_before)

\* C10 as stated: after any invocations, brands.json has no two names equal
\* ignoring case and is sorted by lower-cased name.
C10_SortedAfterAnyInvocation ==
    c_runs >= 1 =>
        /\ NoTwoAlike(brands_json)
        /\ IsSortedByName(brands_json)
        /\ LastInvocationEffect

\* C10, amended: no two names equal ignoring case, ever; sorted by
\* lower-cased name once an invocation has written the file; the one
\* invocation that does not write is an add, without a url, of a name that
\* is not listed, which exits with status 1 and leaves the file as it was.
C10_SortedOnceWritten ==
    /\ NoTwoAlike(brands_json)
    /\ c_written => IsSortedByName(brands_json)
    /\ c_exit = 1 =>
          /\ brands_json = c_before
          /\ c_args.action = "add" /\ c_args.url = <<>> /\ Matching = {}
    /\ c_runs >= 1 /\ c_exit = 0 => c_written
    /\ LastInvocationEffect

\* a hand-written list that was not sorted, sorted by the invocation that
\* wrote it
C10_UnsortedListGotSorted ==
    /\ c_exit = 0
    /\ c_args.action = "add"
    /\ c_args.url # <<>>
    /\ ~IsSortedByName(c_before)
    /\ Len(brands_json) > Len(c_before)
    /\ IsSortedByName(brands_json)

\* the scan moves from the page it is at to the next one in the order base,
\* alts[1], alts[2], ...: the end of the scan only after the last alt
MovesToNextPage ==
    /\ attempt' = 1
    /\ IF vi < Len(Alts)
       THEN vi' = vi + 1 /\ pc' = "visit"
       ELSE vi' = vi /\ pc' = "finish"

\* a failed attempt that is not the page's last: the same page again
AttemptRepeated ==
    /\ attempt < RETRIES_PER_URL
    /\ attempt' = attempt + 1
    /\ vi' = vi
    /\ pc' = "visit"
    /\ found' = found
    /\ notes' = notes
    /\ fetched' = fetched

\* a successful attempt: the page counts as fetched, no warning is noted and
\* the page is not attempted again
AttemptSucceeded ==
    /\ fetched' = [fetched EXCEPT ![Brand] = @ + 1]
    /\ Len(found') >= Len(found)
    /\ SubSeq(found', 1, Len(found)) = found
    /\ \/ notes' = notes
       \/ /\ Len(notes') = Len(notes) + 1
          /\ SubSeq(notes', 1, Len(notes)) = notes
          /\ "signals" \in DOMAIN notes'[Len(notes')]
    /\ MovesToNextPage

\* the last attempt failed: no candidates, one note for the page, and on to
\* the next page
PageGivenUp ==
    /\ attempt = RETRIES_PER_URL
    /\ fetched' = fetched
    /\ found' = found
    /\ Len(notes') = Len(notes) + 1
    /\ SubSeq(notes', 1, Len(notes)) = notes
    /\ "warn" \in DOMAIN notes'[Len(notes')]
    /\ notes'[Len(notes')].page = Hint
    /\ MovesToNextPage

\* C11: a scan starts at the base url and goes through the alts in listed
\* order; a page is attempted at most RETRIES_PER_URL times, never again
\* after a success; a page whose attempts all failed adds no candidates and
\* one note, and the scan goes on with the next page.
C11_PagesInOrderBoundedRetries ==
    /\ [](pc = "visit" => attempt \in 1..RETRIES_PER_URL /\ vi \in 0..Len(Alts))
    /\ [](pc = "visit" =>
            Target = IF vi = 0 THEN BrandUrl ELSE RStripSlash(BrandUrl) \o Alts[vi])
    /\ [][pc # "visit" /\ pc' = "visit" =>
            vi' = 0 /\ attempt' = 1 /\ found' = <<>> /\ notes' = <<>>]_vars
    /\ [][pc = "visit" => AttemptRepeated \/ AttemptSucceeded \/ PageGivenUp]_vars

\* the second attempt at the last alt of a scan whose base page failed on
\* every attempt and whose first alt was fetched
C11_FailedPageThenNextPages ==
    /\ pc = "visit"
    /\ vi = 2
    /\ attempt = RETRIES_PER_URL
    /\ fetched[Brand] = 1
    /\ \E k \in DOMAIN notes : "warn" \in DOMAIN notes[k] /\ notes[k].page = <<>>
    /\ found # <<>>

\* what the second run's diff_new returns for a brand: the rows of its scan
\* against the entry load_state read from the file the first run saved
NewlyInSecondRun(b) == diff_new(StateGet(load_state(state_file0), b), scanned[b])

\* the second run's scan of the brand returned the list the first run's did
SameListAsBefore(b) ==
    /\ b \in DOMAIN scanned
    /\ b \in DOMAIN scanned_before
    /\ scanned[b] = scanned_before[b]

\* C12: in the second of two consecutive completed runs, a brand whose scan
\* returned the same list as in the first run has nothing new: diff_new
\* returns the empty list, no row of its report section or email section is
\* marked new, and its email section has no best pick.
C12_SameListNothingNew ==
    run_no = 2 =>
        \A i \in DOMAIN report_sections :
            LET b == report_sections[i].header[2]
            IN SameListAsBefore(b) =>
                /\ NewlyInSecondRun(b) = <<>>
                /\ choose_best(NewlyInSecondRun(b)) = <<>>
                /\ report_sections[i].kind = "table" =>
                      \A k \in DOMAIN report_sections[i].lines :
                          ~report_sections[i].lines[k].is_new
                /\ \A k \in DOMAIN email_sections[i].lines :
                      ~email_sections[i].lines[k].is_new
                /\ email_sections[i].best = <<>>

\* a second run completed in which one brand's scan returned the same rows,
\* more than one, as the first run's, which the file it read holds
C12_SecondRunSameRows ==
    /\ run_no = 2
    /\ pc = "done"
    /\ \E b \in ConfiguredBrands :
          /\ SameListAsBefore(b)
          /\ Len(scanned[b]) > 1
          /\ b \in DOMAIN state_file0.data
          /\ state_file0.data[b] = scanned[b]
====
